---- MODULE Spec2Model ----
(***************************************************************************)
(* Model of thumbnailer's run() (src/main.go): the driver goroutine that   *)
(* validates the configuration, enumerates the input files, and dispatches *)
(* one worker goroutine per file behind a buffered-channel semaphore, a    *)
(* WaitGroup barrier and a mutex-protected pair of counters.               *)
(***************************************************************************)
EXTENDS Integers, Sequences, FiniteSets

\* ---------------------------------------------------------------- bounds
MaxFiles == 3          \* most files filepath.Walk finds
MaxParallelism == 2    \* largest value of the -p flag
MaxAttempts == 2       \* largest retry budget explored

\* ------------------------------------------------------ program constants
maxRetries == 1

\* The retry budgets the loop of lines 117-135 is explored for: the source's
\* constant and a larger value the loop is written for.
AttemptBudgets == {maxRetries, MaxAttempts}
Parallelisms == -1..MaxParallelism
\* <<maxWidth, maxHeight>>: none given, a width only, a negative width
DimensionPairs == {<<0, 0>>, <<200, 0>>, <<-1, 0>>}
SupportedFormats == {"jpeg", "png", "gif", "bmp"}
OutputFormats == {"jpeg", "tiff"}

Workers == 1..MaxFiles

\* The regular files under the input path, in the lexical order of
\* filepath.Walk; Walk finds a prefix of them. Files 1 and 2 have the same
\* base name in two directories, files 3 and 4 the same stem with two
\* extensions.
InputTree ==
    <<[dir |-> "a", stem |-> "x", ext |-> "png"],
      [dir |-> "b", stem |-> "x", ext |-> "png"],
      [dir |-> "b", stem |-> "y", ext |-> "cr3"],
      [dir |-> "b", stem |-> "y", ext |-> "png"],
      [dir |-> "c", stem |-> "z", ext |-> "png"]>>

\* processImage, lines 207-218: a .cr3 file is replaced by the .jpg that
\* exiftool writes next to it
Preprocessed(path) ==
    IF path.ext = "cr3" THEN [path EXCEPT !.ext = "jpg"] ELSE path

\* processImage, line 239: the output directory joined with the base name
\* without its extension, a dot and the output format; the directory of the
\* input is dropped
OutputFile(path, format) ==
    [stem |-> Preprocessed(path).stem, ext |-> format]

VARIABLES
    \* configuration globals (lines 24-33), fixed after flag/config parsing
    maxWidth, maxHeight, outputFormat, parallelism, maxAttempts,
    \* driver goroutine (run)
    pc,             \* position of the driver in run()
    exit,           \* how the process ended: "none", a log.Fatal reason, "panic"
    files,          \* files collected by filepath.Walk, as file indices
    idx,            \* number of loop iterations of line 109 started
    sem,            \* number of tokens in the channel sem
    wg,             \* WaitGroup counter
    mu,             \* 0 when the mutex is free, else the worker holding it
    successCount, errorCount, durations,
    report,         \* arguments generateSummaryReport rendered, or <<>>
    outputs,        \* thumbnail files saved in the output directory
    \* worker goroutines, indexed by the loop iteration that spawned them
    wpc,            \* position of each worker
    wfile,          \* the file argument each worker was started with
    retries,        \* each worker's local retries
    wdur,           \* each worker's local duration (attempt that measured it)
    \* history of the environment and of the bookkeeping
    attempts,       \* per file: results of the processImage calls made on it
    handledBy,      \* per file: workers that called processImage on it
    recS, recE,     \* per file: increments of successCount / errorCount made for it
    acq, rel        \* per loop iteration: sends on sem made for it / receives made by its worker

config == <<maxWidth, maxHeight, outputFormat, parallelism, maxAttempts>>
driver == <<pc, exit, files, idx, report>>
sync == <<sem, wg, mu>>
stats == <<successCount, errorCount, durations>>
wlocal == <<wpc, wfile, retries, wdur>>
history == <<attempts, handledBy, recS, recE>>
slots == <<acq, rel>>
vars == <<config, driver, sync, stats, wlocal, history, slots, outputs>>

N == Len(files)

Init ==
    /\ \E d \in DimensionPairs : maxWidth = d[1] /\ maxHeight = d[2]
    /\ outputFormat \in OutputFormats
    /\ parallelism \in Parallelisms
    /\ maxAttempts \in AttemptBudgets
    /\ pc = "validate"
    /\ exit = "none"
    /\ files = <<>>
    /\ idx = 0
    /\ sem = 0
    /\ wg = 0
    /\ mu = 0
    /\ successCount = 0
    /\ errorCount = 0
    /\ durations = <<>>
    /\ report = <<>>
    /\ outputs = {}
    /\ wpc = [w \in Workers |-> "idle"]
    /\ wfile = [w \in Workers |-> 0]
    /\ retries = [w \in Workers |-> 0]
    /\ wdur = [w \in Workers |-> <<>>]
    /\ attempts = [f \in Workers |-> <<>>]
    /\ handledBy = [f \in Workers |-> {}]
    /\ recS = [f \in Workers |-> 0]
    /\ recE = [f \in Workers |-> 0]
    /\ acq = [w \in Workers |-> 0]
    /\ rel = [w \in Workers |-> 0]

\* log.Fatal / log.Fatalf: the process exits at once.
Fatal(reason) ==
    /\ pc' = "exited"
    /\ exit' = reason

\* ------------------------------------------------------------- the driver

\* run, lines 77-79
Validate ==
    /\ pc = "validate"
    /\ IF maxWidth = 0 /\ maxHeight = 0
       THEN Fatal("dimensions")
       ELSE pc' = "mkdir" /\ exit' = exit
    /\ UNCHANGED <<slots, outputs, config, files, idx, report, sync, stats, wlocal, history>>

\* run, lines 82-84: os.MkdirAll succeeds or fails
MkdirAll ==
    /\ pc = "mkdir"
    /\ \E ok \in BOOLEAN :
         IF ok THEN pc' = "walk" /\ exit' = exit ELSE Fatal("mkdir")
    /\ UNCHANGED <<slots, outputs, config, files, idx, report, sync, stats, wlocal, history>>

\* run, lines 86-98: filepath.Walk collects the regular files or fails
Walk ==
    /\ pc = "walk"
    /\ \/ \E n \in 0..MaxFiles :
            /\ files' = [i \in 1..n |-> i]
            /\ pc' = "makechan"
            /\ exit' = exit
       \/ Fatal("walk") /\ files' = files
    /\ UNCHANGED <<slots, outputs, config, idx, report, sync, stats, wlocal, history>>

\* run, line 104: make(chan struct{}, parallelism) panics on a negative size
MakeChan ==
    /\ pc = "makechan"
    /\ IF parallelism < 0
       THEN pc' = "exited" /\ exit' = "panic"
       ELSE pc' = "range" /\ exit' = exit
    /\ UNCHANGED <<slots, outputs, config, files, idx, report, sync, stats, wlocal, history>>

\* Mutant of RangeFiles: the goroutine is started right after wg.Add(1); the
\* driver does not send on sem first.
RangeFiles_SpawnFirst ==
    /\ pc = "range"
    /\ IF idx < N
       THEN /\ idx' = idx + 1
            /\ wg' = wg + 1
            /\ pc' = "go"
       ELSE /\ pc' = "wait"
            /\ UNCHANGED <<idx, wg>>
    /\ UNCHANGED <<slots, outputs, config, exit, files, report, sem, mu, stats, wlocal, history>>

\* Mutant of RangeFiles: wg.Add(1) is missing from the loop body.
RangeFiles_NoAdd ==
    /\ pc = "range"
    /\ IF idx < N
       THEN /\ idx' = idx + 1
            /\ pc' = "send"
       ELSE /\ pc' = "wait"
            /\ UNCHANGED idx
    /\ UNCHANGED <<slots, outputs, config, exit, files, report, sem, wg, mu, stats, wlocal, history>>

\* Mutant of RangeFiles: the loop body runs once before the bound is tested.
RangeFiles_OffByOne ==
    /\ pc = "range"
    /\ IF idx <= N
       THEN /\ idx' = idx + 1
            /\ wg' = wg + 1
            /\ pc' = "send"
       ELSE /\ pc' = "wait"
            /\ UNCHANGED <<idx, wg>>
    /\ UNCHANGED <<slots, outputs, config, exit, files, report, sem, mu, stats, wlocal, history>>

\* run, lines 109-110: next iteration does wg.Add(1); after the last file, go on to wg.Wait
RangeFiles ==
    /\ pc = "range"
    /\ IF idx < N
       THEN /\ idx' = idx + 1
            /\ wg' = wg + 1
            /\ pc' = "send"
       ELSE /\ pc' = "wait"
            /\ UNCHANGED <<idx, wg>>
    /\ UNCHANGED <<slots, outputs, config, exit, files, report, sem, mu, stats, wlocal, history>>

\* Mutant of SemSend: the channel has room for one token too many.
SemSend_OffByOne ==
    /\ pc = "send"
    /\ sem <= parallelism
    /\ sem' = sem + 1
    /\ acq' = [acq EXCEPT ![idx] = @ + 1]
    /\ pc' = "go"
    /\ UNCHANGED <<rel, outputs, config, exit, files, idx, report, wg, mu, stats, wlocal, history>>

\* Mutant of SemSend: the send never blocks (an unbounded channel).
SemSend_NoBlock ==
    /\ pc = "send"
    /\ sem' = sem + 1
    /\ acq' = [acq EXCEPT ![idx] = @ + 1]
    /\ pc' = "go"
    /\ UNCHANGED <<rel, outputs, config, exit, files, idx, report, wg, mu, stats, wlocal, history>>

\* run, line 111: sem <- struct{}{} blocks while the buffer is full; with a
\* zero-sized buffer it needs a receiver, and the only receivers are workers
SemSend ==
    /\ pc = "send"
    /\ sem < parallelism
    /\ sem' = sem + 1
    /\ acq' = [acq EXCEPT ![idx] = @ + 1]
    /\ pc' = "go"
    /\ UNCHANGED <<rel, outputs, config, exit, files, idx, report, wg, mu, stats, wlocal, history>>

\* Mutant of Go: the closure reads the loop variable instead of taking the
\* file as an argument, so it may see the file of a later iteration.
Go_CapturedLoopVar ==
    /\ pc = "go"
    /\ wpc' = [wpc EXCEPT ![idx] = "loop"]
    /\ \E j \in idx..N : wfile' = [wfile EXCEPT ![idx] = files[j]]
    /\ retries' = [retries EXCEPT ![idx] = 0]
    /\ pc' = "range"
    /\ UNCHANGED <<slots, outputs, config, exit, files, idx, report, sync, stats, wdur, history>>

\* run, lines 113 and 136: go func(file string){...}(file)
Go ==
    /\ pc = "go"
    /\ wpc' = [wpc EXCEPT ![idx] = "loop"]
    /\ wfile' = [wfile EXCEPT ![idx] = files[idx]]
    /\ retries' = [retries EXCEPT ![idx] = 0]
    /\ pc' = "range"
    /\ UNCHANGED <<slots, outputs, config, exit, files, idx, report, sync, stats, wdur, history>>

\* Mutant of WgWait: the driver does not wait for the workers.
WgWait_NoBarrier ==
    /\ pc = "wait"
    /\ pc' = "report"
    /\ UNCHANGED <<slots, outputs, config, exit, files, idx, report, sync, stats, wlocal, history>>

\* run, line 139: wg.Wait()
WgWait ==
    /\ pc = "wait"
    /\ wg = 0
    /\ pc' = "report"
    /\ UNCHANGED <<slots, outputs, config, exit, files, idx, report, sync, stats, wlocal, history>>

\* run, lines 140-144 and generateSummaryReport, lines 147-165
GenerateSummaryReport ==
    /\ pc = "report"
    /\ report' = [total |-> N, success |-> successCount, errors |-> errorCount,
                  lines |-> durations]
    /\ \E ok \in BOOLEAN :
         IF ok THEN pc' = "exited" /\ exit' = "ok" ELSE Fatal("report")
    /\ UNCHANGED <<slots, outputs, config, files, idx, sync, stats, wlocal, history>>

\* run, line 111 with no goroutine left to run: the Go runtime ends the
\* process ("all goroutines are asleep - deadlock!")
RuntimeDeadlock ==
    /\ pc = "send"
    /\ sem >= parallelism
    /\ \A w \in Workers : wpc[w] \in {"idle", "returned"}
    /\ pc' = "exited"
    /\ exit' = "deadlock"
    /\ UNCHANGED <<slots, outputs, config, files, idx, report, sync, stats, wlocal, history>>

Driver ==
    \/ Validate
    \/ MkdirAll
    \/ Walk
    \/ MakeChan
    \/ RangeFiles
    \/ SemSend
    \/ RuntimeDeadlock
    \/ Go
    \/ WgWait
    \/ GenerateSummaryReport

\* ------------------------------------------------------------ the workers

\* A goroutine runs only while the process lives.
Alive == pc # "exited"

\* Mutant of LoopTest: the loop test is retries <= maxRetries.
LoopTest_OffByOne(w) ==
    /\ Alive
    /\ wpc[w] = "loop"
    /\ IF retries[w] <= maxAttempts
       THEN /\ wpc' = [wpc EXCEPT ![w] = "processImage"]
            /\ handledBy' = [handledBy EXCEPT ![wfile[w]] = @ \cup {w}]
       ELSE /\ wpc' = [wpc EXCEPT ![w] = "release"]
            /\ UNCHANGED handledBy
    /\ UNCHANGED <<slots, outputs, config, driver, sync, stats, wfile, retries, wdur,
                   attempts, recS, recE>>

\* run, line 118/119: the loop test, then the call of processImage
LoopTest(w) ==
    /\ Alive
    /\ wpc[w] = "loop"
    /\ IF retries[w] < maxAttempts
       THEN /\ wpc' = [wpc EXCEPT ![w] = "processImage"]
            /\ handledBy' = [handledBy EXCEPT ![wfile[w]] = @ \cup {w}]
       ELSE /\ wpc' = [wpc EXCEPT ![w] = "release"]
            /\ UNCHANGED handledBy
    /\ UNCHANGED <<slots, outputs, config, driver, sync, stats, wfile, retries, wdur,
                   attempts, recS, recE>>

\* Mutant of ProcessImageResults: the default case of the format switch is
\* missing, so an unknown format is handed to imaging.Save like the others.
ProcessImageResults_NoDefault == BOOLEAN

\* processImage, lines 200-262: an unsupported output format is an error
\* (line 250); otherwise the file operations succeed or fail, and the call
\* returns no error only after imaging.Save has written the output file
ProcessImageResults == IF outputFormat \in SupportedFormats THEN BOOLEAN ELSE {FALSE}

\* Mutant of ProcessImageReturn: the test of line 123 is missing, so every
\* failed attempt is counted as an error.
ProcessImageReturn_CountEveryFailure(w) ==
    /\ Alive
    /\ wpc[w] = "processImage"
    /\ \E ok \in ProcessImageResults :
         /\ attempts' = [attempts EXCEPT ![wfile[w]] = Append(@, ok)]
         /\ IF ok
            THEN /\ wdur' = [wdur EXCEPT ![w] = <<wfile[w], Len(attempts'[wfile[w]])>>]
                 /\ outputs' = outputs \cup {OutputFile(InputTree[wfile[w]], outputFormat)}
                 /\ wpc' = [wpc EXCEPT ![w] = "lockSuccess"]
                 /\ UNCHANGED retries
            ELSE /\ retries' = [retries EXCEPT ![w] = @ + 1]
                 /\ wpc' = [wpc EXCEPT ![w] = "lockError"]
                 /\ UNCHANGED <<wdur, outputs>>
    /\ UNCHANGED <<slots, config, driver, sync, stats, wfile, handledBy, recS, recE>>

\* Mutant of ProcessImageReturn: the test of line 123 is off by one
\* (retries > maxRetries), so an exhausted job is never counted.
ProcessImageReturn_OffByOne(w) ==
    /\ Alive
    /\ wpc[w] = "processImage"
    /\ \E ok \in ProcessImageResults :
         /\ attempts' = [attempts EXCEPT ![wfile[w]] = Append(@, ok)]
         /\ IF ok
            THEN /\ wdur' = [wdur EXCEPT ![w] = <<wfile[w], Len(attempts'[wfile[w]])>>]
                 /\ outputs' = outputs \cup {OutputFile(InputTree[wfile[w]], outputFormat)}
                 /\ wpc' = [wpc EXCEPT ![w] = "lockSuccess"]
                 /\ UNCHANGED retries
            ELSE /\ retries' = [retries EXCEPT ![w] = @ + 1]
                 /\ wpc' = [wpc EXCEPT ![w] =
                              IF retries'[w] > maxAttempts THEN "lockError" ELSE "loop"]
                 /\ UNCHANGED <<wdur, outputs>>
    /\ UNCHANGED <<slots, config, driver, sync, stats, wfile, handledBy, recS, recE>>

\* run, lines 119-123 and 128: processImage returns; on an error retries++,
\* and the last allowed failure goes on to count the error
ProcessImageReturn(w) ==
    /\ Alive
    /\ wpc[w] = "processImage"
    /\ \E ok \in ProcessImageResults :
         /\ attempts' = [attempts EXCEPT ![wfile[w]] = Append(@, ok)]
         /\ IF ok
            THEN /\ wdur' = [wdur EXCEPT ![w] = <<wfile[w], Len(attempts'[wfile[w]])>>]
                 /\ outputs' = outputs \cup {OutputFile(InputTree[wfile[w]], outputFormat)}
                 /\ wpc' = [wpc EXCEPT ![w] = "lockSuccess"]
                 /\ UNCHANGED retries
            ELSE /\ retries' = [retries EXCEPT ![w] = @ + 1]
                 /\ wpc' = [wpc EXCEPT ![w] =
                              IF retries'[w] = maxAttempts THEN "lockError" ELSE "loop"]
                 /\ UNCHANGED <<wdur, outputs>>
    /\ UNCHANGED <<slots, config, driver, sync, stats, wfile, handledBy, recS, recE>>

\* Mutant of LockError: the error path updates the counter without taking
\* the mutex.
LockError_NoLock(w) ==
    /\ Alive
    /\ wpc[w] = "lockError"
    /\ wpc' = [wpc EXCEPT ![w] = "incError"]
    /\ UNCHANGED <<slots, outputs, config, driver, sync, stats, wfile, retries, wdur, history>>

\* run, line 124: mu.Lock()
LockError(w) ==
    /\ Alive
    /\ wpc[w] = "lockError"
    /\ mu = 0
    /\ mu' = w
    /\ wpc' = [wpc EXCEPT ![w] = "incError"]
    /\ UNCHANGED <<slots, outputs, config, driver, sem, wg, stats, wfile, retries, wdur, history>>

\* run, line 125: errorCount++
IncError(w) ==
    /\ Alive
    /\ wpc[w] = "incError"
    /\ errorCount' = errorCount + 1
    /\ recE' = [recE EXCEPT ![wfile[w]] = @ + 1]
    /\ wpc' = [wpc EXCEPT ![w] = "unlockError"]
    /\ UNCHANGED <<slots, outputs, config, driver, sync, successCount, durations, wfile, retries,
                   wdur, attempts, handledBy, recS>>

\* run, line 126: mu.Unlock(), then back to the loop test
UnlockError(w) ==
    /\ Alive
    /\ wpc[w] = "unlockError"
    /\ mu' = 0
    /\ wpc' = [wpc EXCEPT ![w] = "loop"]
    /\ UNCHANGED <<slots, outputs, config, driver, sem, wg, stats, wfile, retries, wdur, history>>

\* run, line 129: mu.Lock()
LockSuccess(w) ==
    /\ Alive
    /\ wpc[w] = "lockSuccess"
    /\ mu = 0
    /\ mu' = w
    /\ wpc' = [wpc EXCEPT ![w] = "incSuccess"]
    /\ UNCHANGED <<slots, outputs, config, driver, sem, wg, stats, wfile, retries, wdur, history>>

\* Mutant of IncSuccess: the mutex is released right after the increment,
\* before the duration is appended.
IncSuccess_EarlyUnlock(w) ==
    /\ Alive
    /\ wpc[w] = "incSuccess"
    /\ successCount' = successCount + 1
    /\ recS' = [recS EXCEPT ![wfile[w]] = @ + 1]
    /\ mu' = 0
    /\ wpc' = [wpc EXCEPT ![w] = "appendDuration"]
    /\ UNCHANGED <<slots, outputs, config, driver, sem, wg, errorCount, durations, wfile, retries,
                   wdur, attempts, handledBy, recE>>

\* run, line 130: successCount++
IncSuccess(w) ==
    /\ Alive
    /\ wpc[w] = "incSuccess"
    /\ successCount' = successCount + 1
    /\ recS' = [recS EXCEPT ![wfile[w]] = @ + 1]
    /\ wpc' = [wpc EXCEPT ![w] = "appendDuration"]
    /\ UNCHANGED <<slots, outputs, config, driver, sync, errorCount, durations, wfile, retries,
                   wdur, attempts, handledBy, recE>>

\* run, line 131: durations = append(durations, duration)
AppendDuration(w) ==
    /\ Alive
    /\ wpc[w] = "appendDuration"
    /\ durations' = Append(durations, wdur[w])
    /\ wpc' = [wpc EXCEPT ![w] = "unlockSuccess"]
    /\ UNCHANGED <<slots, outputs, config, driver, sync, successCount, errorCount, wfile, retries,
                   wdur, history>>

\* Mutant of UnlockSuccess: the break is missing, so the loop goes on.
UnlockSuccess_NoBreak(w) ==
    /\ Alive
    /\ wpc[w] = "unlockSuccess"
    /\ mu' = 0
    /\ wpc' = [wpc EXCEPT ![w] = "loop"]
    /\ UNCHANGED <<slots, outputs, config, driver, sem, wg, stats, wfile, retries, wdur, history>>

\* run, lines 132-133: mu.Unlock(); break
UnlockSuccess(w) ==
    /\ Alive
    /\ wpc[w] = "unlockSuccess"
    /\ mu' = 0
    /\ wpc' = [wpc EXCEPT ![w] = "release"]
    /\ UNCHANGED <<slots, outputs, config, driver, sem, wg, stats, wfile, retries, wdur, history>>

\* Mutant of ReleaseSem: the deferred receive is missing, the slot is kept.
ReleaseSem_Leak(w) ==
    /\ Alive
    /\ wpc[w] = "release"
    /\ wpc' = [wpc EXCEPT ![w] = "wgDone"]
    /\ UNCHANGED <<slots, outputs, config, driver, sync, stats, wfile, retries, wdur, history>>

\* Mutant of ReleaseSem: the receive is not deferred but sits on the success
\* path, so a job whose attempts all failed keeps its slot.
ReleaseSem_OnSuccessOnly(w) ==
    /\ Alive
    /\ wpc[w] = "release"
    /\ IF retries[w] < maxAttempts
       THEN /\ sem > 0
            /\ sem' = sem - 1
            /\ rel' = [rel EXCEPT ![w] = @ + 1]
       ELSE UNCHANGED <<sem, rel>>
    /\ wpc' = [wpc EXCEPT ![w] = "wgDone"]
    /\ UNCHANGED <<acq, outputs, config, driver, wg, mu, stats, wfile, retries, wdur, history>>

\* run, line 115: the deferred <-sem, run first on return
ReleaseSem(w) ==
    /\ Alive
    /\ wpc[w] = "release"
    /\ sem > 0
    /\ sem' = sem - 1
    /\ rel' = [rel EXCEPT ![w] = @ + 1]
    /\ wpc' = [wpc EXCEPT ![w] = "wgDone"]
    /\ UNCHANGED <<acq, outputs, config, driver, wg, mu, stats, wfile, retries, wdur, history>>

\* run, line 114: the deferred wg.Done(), run last
WgDone(w) ==
    /\ Alive
    /\ wpc[w] = "wgDone"
    /\ wg' = wg - 1
    /\ wpc' = [wpc EXCEPT ![w] = "returned"]
    /\ UNCHANGED <<slots, outputs, config, driver, sem, mu, stats, wfile, retries, wdur, history>>

Worker(w) ==
    \/ LoopTest(w)
    \/ ProcessImageReturn(w)
    \/ LockError(w)
    \/ IncError(w)
    \/ UnlockError(w)
    \/ LockSuccess(w)
    \/ IncSuccess(w)
    \/ AppendDuration(w)
    \/ UnlockSuccess(w)
    \/ ReleaseSem(w)
    \/ WgDone(w)

Next ==
    \/ Driver
    \/ \E w \in Workers : Worker(w)

Spec == Init /\ [][Next]_vars

\* The Go scheduler runs every goroutine that can take a step.
FairSpec ==
    /\ Spec
    /\ WF_vars(Driver)
    /\ \A w \in Workers : WF_vars(Worker(w))

\* ------------------------------------------------------------ properties

\* The run is past wg.Wait: about to report, or ended after reporting.
PastBarrier == pc = "report" \/ exit \in {"ok", "report"}

\* Workers spawned that have not yet given their slot back.
InFlight == {w \in Workers : wpc[w] \notin {"idle", "wgDone", "returned"}}

\* C1: with a concurrency limit P >= 1, at most P jobs are ever executing
\* their retry sequence at once (so with P = 1 no two jobs overlap).
C1_BoundedConcurrency ==
    parallelism >= 1 => Cardinality(InFlight) <= parallelism

\* C1 witness: more files than slots, every slot taken by a running job and
\* the driver waiting at the send for the next file.
C1_Witness ==
    /\ parallelism >= 1
    /\ Cardinality(InFlight) = parallelism
    /\ pc = "send"
    /\ idx > parallelism
    /\ \E w \in InFlight : wpc[w] = "processImage"

\* C2: when the run is past the barrier, successCount + errorCount equals the
\* number of files, and so do the figures the report was given.
C2_AllCounted ==
    PastBarrier =>
        /\ successCount + errorCount = N
        /\ report # <<>> => report.success + report.errors = report.total

\* C2 witness: a finished run of several files on several slots with both
\* successes and failures.
C2_Witness ==
    /\ exit = "ok"
    /\ N >= 3
    /\ parallelism >= 2
    /\ successCount >= 1
    /\ errorCount >= 1

\* C3: the driver is past the barrier only when every spawned worker has
\* finished its retry sequence, recorded its outcome and called wg.Done; the
\* report is given the final counters.
C3_Barrier ==
    PastBarrier =>
        /\ idx = N
        /\ wg = 0
        /\ \A w \in 1..N : wpc[w] = "returned" /\ recS[wfile[w]] + recE[wfile[w]] >= 1
        /\ report # <<>> =>
               /\ report.success = successCount
               /\ report.errors = errorCount
               /\ report.lines = durations

\* C3 witness: the driver has just passed wg.Wait with several workers done.
C3_Witness ==
    /\ pc = "report"
    /\ N >= 2
    /\ \A w \in 1..N : wpc[w] = "returned"

\* C4 (as claimed): with parallelism <= 0 and at least one input file the
\* run is stopped by a setup error and never enters the dispatch loop (no
\* wg.Add, no blocked send).
C4_NonPositiveLimitIsFatal ==
    (parallelism <= 0 /\ N >= 1) => (idx = 0 /\ wg = 0 /\ pc # "send")

\* The outcome of a file's retry sequence, from the processImage results.
Succeeded(f) == attempts[f] # <<>> /\ attempts[f][Len(attempts[f])]
AllFailed(f) == \A j \in 1..Len(attempts[f]) : ~attempts[f][j]
Exhausted(f) == Len(attempts[f]) = maxAttempts /\ AllFailed(f)
DurationsOf(f) == {i \in 1..Len(durations) : durations[i][1] = f}
Finished(w) == wpc[w] \in {"release", "wgDone", "returned"}

\* C5: with P >= 1, whatever the attempts return, a run that has reached the
\* dispatch loop goes on to generate the report with every worker returned
\* and every file recorded; it does not end in a deadlock.
C5_Completion ==
    (pc = "range" /\ parallelism >= 1) ~>
        /\ report # <<>>
        /\ exit # "deadlock"
        /\ \A w \in 1..N : wpc[w] = "returned"
        /\ report.success + report.errors = N

\* C5 witness: one slot, a file whose attempts all failed, and a later file
\* that was still started and recorded as a success; the report is written.
C5_Witness ==
    /\ exit = "ok"
    /\ parallelism = 1
    /\ \E f, g \in 1..N : f < g /\ recE[files[f]] = 1 /\ recS[files[g]] = 1

\* C6: every enumerated file is given to exactly one worker (the one of its
\* own loop iteration), never to two, and gets at most one recorded outcome;
\* past the barrier every file has been handled and has exactly one outcome.
C6_ExactlyOnce ==
    /\ \A w \in Workers : wpc[w] # "idle" => wfile[w] = files[w]
    /\ \A f \in Workers : Cardinality(handledBy[f]) <= 1 /\ recS[f] + recE[f] <= 1
    /\ PastBarrier =>
          \A i \in 1..N : /\ Cardinality(handledBy[files[i]]) = 1
                          /\ recS[files[i]] + recE[files[i]] = 1

\* C6 witness: a finished run in which two files were handled concurrently
\* by their own workers.
C6_Witness ==
    /\ exit = "ok"
    /\ parallelism >= 2
    /\ N >= 2
    /\ handledBy[files[1]] = {1}
    /\ handledBy[files[2]] = {2}

\* C7: a job that fails on attempts 1..k-1 and succeeds on attempt k (k up
\* to the retry budget) is recorded as exactly one success: successCount is
\* incremented once for it, one duration is appended, that of attempt k, and
\* errorCount is not incremented for it.
C7_SuccessOnLastAttempt ==
    \A w \in Workers :
        LET f == wfile[w] IN
        /\ (wpc[w] # "idle") => recS[f] <= 1 /\ Cardinality(DurationsOf(f)) <= 1
        /\ (Finished(w) /\ Succeeded(f)) =>
              /\ recS[f] = 1
              /\ recE[f] = 0
              /\ Cardinality(DurationsOf(f)) = 1
              /\ \A i \in DurationsOf(f) : durations[i] = <<f, Len(attempts[f])>>

\* C7 witness: a job that used its whole budget of at least two attempts and
\* succeeded on the last one.
C7_Witness ==
    \E w \in Workers :
        /\ wpc[w] = "returned"
        /\ maxAttempts >= 2
        /\ Len(attempts[wfile[w]]) = maxAttempts
        /\ Succeeded(wfile[w])
        /\ successCount >= 1

\* C8: a job's attempts stop at the first success and number at most the
\* budget; a finished job made min(first success, budget) calls; a job whose
\* attempts all failed has errorCount incremented once, only after the last
\* attempt, and no duration; failed intermediate attempts record nothing.
C8_RetryLoop ==
    \A w \in Workers :
        LET f == wfile[w] IN
        (wpc[w] # "idle") =>
            /\ Len(attempts[f]) <= maxAttempts
            /\ \A j \in 1..(Len(attempts[f]) - 1) : ~attempts[f][j]
            /\ Finished(w) => Succeeded(f) \/ Exhausted(f)
            /\ (Finished(w) /\ Exhausted(f)) =>
                  recE[f] = 1 /\ recS[f] = 0 /\ DurationsOf(f) = {}
            /\ recE[f] <= 1
            /\ recE[f] = 1 => Exhausted(f)
            /\ (AllFailed(f) /\ Len(attempts[f]) < maxAttempts) =>
                  recE[f] = 0 /\ recS[f] = 0 /\ DurationsOf(f) = {}

\* C8 witness: a finished job with a budget of at least two whose attempts
\* all failed.
C8_Witness ==
    \E w \in Workers :
        /\ wpc[w] = "returned"
        /\ maxAttempts >= 2
        /\ Exhausted(wfile[w])
        /\ recE[wfile[w]] = 1

\* C9: past the barrier successCount is the number of files whose retry
\* sequence ended in a success and errorCount the number whose attempts all
\* failed, whatever P and the interleaving; the report carries these figures.
C9_CountsMatchOutcomes ==
    PastBarrier =>
        /\ successCount = Cardinality({i \in 1..N : Succeeded(files[i])})
        /\ errorCount = Cardinality({i \in 1..N : Exhausted(files[i])})
        /\ report # <<>> =>
              /\ report.total = N
              /\ report.success = Cardinality({i \in 1..N : Succeeded(files[i])})
              /\ report.errors = Cardinality({i \in 1..N : Exhausted(files[i])})
              /\ Len(report.lines) = Cardinality({i \in 1..N : Succeeded(files[i])})

\* C9 witness: a report of three files, two successes and one error, made
\* with two slots.
C9_Witness ==
    /\ report # <<>>
    /\ parallelism = 2
    /\ report.total = 3
    /\ report.success = 2
    /\ report.errors = 1
    /\ Len(report.lines) = 2

\* C10: whenever no worker holds the mutex, len(durations) = successCount;
\* every recorded duration is that of a successful attempt, and the report
\* has as many duration lines as successes.
C10_DurationsAtomic ==
    /\ mu = 0 => Len(durations) = successCount
    /\ \A i \in 1..Len(durations) : attempts[durations[i][1]][durations[i][2]]
    /\ report # <<>> => Len(report.lines) = report.success

\* C10 witness: mid-run with the mutex free, a success and a failure already
\* recorded and another job still in processImage.
C10_Witness ==
    /\ mu = 0
    /\ successCount >= 1
    /\ errorCount >= 1
    /\ Len(durations) < N
    /\ \E w \in Workers : wpc[w] = "processImage"

\* Loop iterations whose slot is held: sent for, not yet received.
Held == {w \in Workers : acq[w] > rel[w]}

\* C11: every slot acquired for a job is released exactly once, when its
\* retry sequence is over, after a success and after a failure alike; the
\* tokens in sem are exactly the slots of the jobs admitted and not yet
\* finished; past the barrier every slot is free.
C11_SlotsReleasedOnce ==
    /\ \A w \in Workers :
          /\ rel[w] <= acq[w]
          /\ acq[w] <= 1
          /\ acq[w] = 1 => w <= idx
          /\ rel[w] = 1 <=> wpc[w] \in {"wgDone", "returned"}
          /\ (wpc[w] # "idle") => acq[w] = 1
    /\ sem = Cardinality(Held)
    /\ PastBarrier => sem = 0 /\ Held = {} /\ \A w \in 1..N : acq[w] = 1 /\ rel[w] = 1

\* C11 witness: past the barrier, with slots that were released by a job
\* that failed and by a job that succeeded.
C11_Witness ==
    /\ pc = "report"
    /\ sem = 0
    /\ \E v, w \in 1..N : /\ rel[v] = 1 /\ Exhausted(wfile[v])
                           /\ rel[w] = 1 /\ Succeeded(wfile[w])

\* filepath.Walk has returned without an error.
Enumerated ==
    \/ pc \in {"makechan", "range", "send", "go", "wait", "report"}
    \/ exit \in {"ok", "report", "panic", "deadlock"}

\* C12: with zero input files no worker is spawned, no slot is acquired, the
\* WaitGroup stays at zero so wg.Wait does not block, and the report that is
\* generated has total 0, success 0, errors 0 and no duration line.
C12_EmptyRun ==
    (Enumerated /\ N = 0) =>
        /\ idx = 0
        /\ wg = 0
        /\ sem = 0
        /\ pc \notin {"send", "go"}
        /\ exit # "deadlock"
        /\ \A w \in Workers : wpc[w] = "idle" /\ acq[w] = 0
        /\ successCount = 0 /\ errorCount = 0 /\ durations = <<>>
        /\ report # <<>> =>
              report = [total |-> 0, success |-> 0, errors |-> 0, lines |-> <<>>]

\* C12 witness: a run over an empty input tree ended with its report written.
C12_Witness ==
    /\ exit = "ok"
    /\ N = 0
    /\ report # <<>>
    /\ report.total = 0

\* C13 (as claimed): when neither maxWidth nor maxHeight is positive the run
\* stops at the dimension check with a fatal error, and no worker is ever
\* started.
C13_DimensionRequired ==
    (maxWidth <= 0 /\ maxHeight <= 0) =>
        /\ pc \in {"validate", "exited"}
        /\ pc = "exited" => exit = "dimensions"
        /\ \A w \in Workers : wpc[w] = "idle"

\* C14 (as claimed): past the barrier there are as many distinct output
\* files as successfully processed inputs: no two inputs that succeeded
\* were saved to the same output path.
C14_OneOutputPerSuccess ==
    PastBarrier => Cardinality(outputs) = successCount

\* C15: with an output format outside jpeg, png, gif, bmp every attempt of
\* every job fails: no success is recorded, no duration, no output file; a
\* finished job has used its whole budget, and past the barrier errorCount
\* is the number of files, which the report that is generated carries.
C15_UnsupportedFormatFailsAll ==
    outputFormat \notin SupportedFormats =>
        /\ successCount = 0
        /\ durations = <<>>
        /\ outputs = {}
        /\ \A f \in Workers : AllFailed(f)
        /\ \A w \in Workers : Finished(w) => Exhausted(wfile[w])
        /\ PastBarrier => errorCount = N
        /\ report # <<>> =>
              report.success = 0 /\ report.errors = report.total /\ report.lines = <<>>

\* C15 witness: a run with format tiff, several files and a budget of at
\* least two attempts ended with its report written, every file an error.
C15_Witness ==
    /\ exit = "ok"
    /\ outputFormat = "tiff"
    /\ maxAttempts >= 2
    /\ N >= 2
    /\ report.errors = N
    /\ \A i \in 1..N : Len(attempts[files[i]]) = maxAttempts

\* Positions of a worker between mu.Lock() and mu.Unlock().
InRecord == {"incError", "unlockError", "incSuccess", "appendDuration", "unlockSuccess"}

\* C16: a worker is inside a record step exactly when it holds the mutex, so
\* at most one worker is, and the holder is never in processImage; every
\* step that changes successCount, errorCount or durations is taken by the
\* holder of the mutex, and the mutex changes hands only through free.
C16_StatsUnderMutex ==
    /\ [](\A w \in Workers : wpc[w] \in InRecord <=> mu = w)
    /\ [][/\ stats' # stats => mu # 0 /\ mu' = mu /\ wpc'[mu] \in InRecord
          /\ mu' # mu => mu = 0 \/ mu' = 0]_vars

\* C16 witness: one worker holds the mutex in the middle of a record step
\* while another, back from processImage, waits for the mutex.
C16_Witness ==
    /\ mu # 0
    /\ wpc[mu] = "appendDuration"
    /\ \E w \in Workers : wpc[w] \in {"lockError", "lockSuccess"}

\* Workers that were spawned and have not yet received from sem.
Holding == {w \in Workers : wpc[w] # "idle" /\ rel[w] = 0}

\* C17: the slot of a job is taken by the driver's send before its worker
\* is spawned: a spawned worker already has its slot, a token is only ever
\* added to sem by the driver between wg.Add and the go statement, and a
\* worker only appears at the go statement; so for P >= 1 the workers
\* spawned and still holding a slot never number more than P.
C17_DriverAcquiresBeforeSpawn ==
    /\ [](/\ \A w \in Workers : wpc[w] # "idle" => acq[w] = 1
          /\ parallelism >= 1 => Cardinality(Holding) <= parallelism)
    /\ [][/\ sem' > sem => pc = "send" /\ pc' = "go" /\ wlocal' = wlocal
          /\ \A w \in Workers :
                (wpc[w] = "idle" /\ wpc'[w] # "idle") =>
                    pc = "go" /\ w = idx /\ acq[w] = 1 /\ sem' = sem]_vars

\* C17 witness: at least two more files than slots, every slot held by a
\* live worker, and the driver waiting at the send for the next file.
C17_Witness ==
    /\ parallelism >= 1
    /\ N >= parallelism + 2
    /\ pc = "send"
    /\ Cardinality(Holding) = parallelism
    /\ sem = parallelism

Recorded(f) == recS[f] + recE[f] >= 1

\* C18: workers are spawned in enumeration order; with P >= 1 the worker of
\* the file at position w exists only when at least w - P of the earlier
\* workers have released their slot; with P = 1 a worker is spawned only
\* when every earlier one has released, so the files are processed and
\* recorded one after the other in enumeration order.
C18_AdmissionOrder ==
    /\ \A w \in Workers :
          (wpc[w] # "idle") =>
              /\ w <= idx
              /\ wfile[w] = files[w]
              /\ \A j \in 1..(w - 1) : wpc[j] # "idle"
              /\ parallelism >= 1 =>
                    Cardinality({j \in 1..(w - 1) : rel[j] = 1}) >= w - parallelism
    /\ parallelism = 1 =>
          /\ \A w \in Workers : (wpc[w] # "idle") =>
                \A j \in 1..(w - 1) : rel[j] = 1 /\ Recorded(files[j])
          /\ \A i, j \in 1..N : (i < j /\ Recorded(files[j])) => Recorded(files[i])
          /\ \A a, b \in 1..Len(durations) : a < b => durations[a][1] < durations[b][1]

\* C18 witness: one slot, three files, all three succeeded and their
\* durations were recorded in enumeration order.
C18_Witness ==
    /\ exit = "ok"
    /\ parallelism = 1
    /\ N >= 3
    /\ Len(durations) = N
    /\ \A i \in 1..N : durations[i][1] = files[i]

\* C19: once the driver is past wg.Wait it stays past it, no worker is at a
\* position from which it can still write (each is returned, the mutex is
\* free), no step changes successCount, errorCount or durations, and the
\* report that is generated carries their final values.
C19_StatsFrozenAfterBarrier ==
    /\ [](PastBarrier =>
            /\ mu = 0
            /\ \A w \in Workers : wpc[w] \in {"idle", "returned"})
    /\ [][PastBarrier =>
            /\ PastBarrier'
            /\ stats' = stats
            /\ report' # <<>> =>
                  /\ report'.success = successCount
                  /\ report'.errors = errorCount
                  /\ report'.lines = durations]_vars

\* C19 witness: the report has been written from counters that workers
\* updated concurrently, and the counters still have the reported values.
C19_Witness ==
    /\ exit = "ok"
    /\ parallelism >= 2
    /\ successCount >= 2
    /\ report.success = successCount
    /\ report.lines = durations
    /\ durations[1][1] > durations[2][1]

====
